---- MODULE Spec2Model ----
(***************************************************************************)
(* Model of app.py: the Ayurveda expert system.  Strings the code inspects *)
(* character by character (queries, keywords, metadata types) are          *)
(* sequences of one-character strings; texts the code only passes along    *)
(* (document contents, prompt and answer lines) are sequences of lines.    *)
(***************************************************************************)
EXTENDS Integers, Sequences, FiniteSets, TLC

VARIABLES
    \* ---- one run of main() and the process around it
    pc,             \* position of the script run
    config,         \* load_config's result for this run
    vector_db,      \* the VectorDBService of this run: [client, model]
    query,          \* the text the UI handed to process_query
    intent,         \* the branch process_query selected
    docs,           \* the first search's documents (condition_docs in process_health_query)
    doctor_docs,    \* filtered documents of the doctor search
    searchLog,      \* the gateway searches of this answer call, in order: the gateway
                    \* before the call, what the back end did, what the call did
    genLog,         \* the prompts handed to Agent.run in this answer call
    result,         \* what process_query produced: an answer, or a raised error
    initFailed,     \* some VectorDBService.__init__ of this process has failed
    \* ---- the pure functions, applied to drawn inputs
    fn,             \* which function the input is for
    applied,        \* whether the function has been applied
    input,          \* the drawn input
    output          \* the function's result

vars == <<pc, config, vector_db, query, intent, docs, doctor_docs,
          searchLog, genLog, result, initFailed, fn, applied, input, output>>

pipelineVars == <<pc, config, vector_db, query, intent, docs, doctor_docs,
                  searchLog, genLog, result, initFailed>>

pureVars == <<fn, applied, input, output>>

(***************************************************************************)
(* Bounds                                                                  *)
(***************************************************************************)
\* query inputs of the classifier are concatenations of at most this many segments
MaxSegs == 2
\* hits one index query returns
MaxHits == 2

(***************************************************************************)
(* Strings                                                                 *)
(***************************************************************************)
UpperCase == <<"A", "B", "C", "D", "E", "F", "G", "H", "I", "J", "K", "L", "M",
               "N", "O", "P", "Q", "R", "S", "T", "U", "V", "W", "X", "Y", "Z">>

LowerCase == <<"a", "b", "c", "d", "e", "f", "g", "h", "i", "j", "k", "l", "m",
               "n", "o", "p", "q", "r", "s", "t", "u", "v", "w", "x", "y", "z">>

\* str.lower() on one character
lowerChar(c) ==
    IF \E i \in DOMAIN UpperCase : UpperCase[i] = c
    THEN LowerCase[CHOOSE i \in DOMAIN UpperCase : UpperCase[i] = c]
    ELSE c

\* str.lower()
lower(s) == [i \in 1..Len(s) |-> lowerChar(s[i])]

\* Python's  k in s  on strings
contains(s, k) ==
    \E i \in 0..(Len(s) - Len(k)) : SubSeq(s, i + 1, i + Len(k)) = k

\* any(keyword in s for keyword in keywords)
any_keyword(s, keywords) ==
    \E j \in DOMAIN keywords : contains(s, keywords[j])

(***************************************************************************)
(* process_query: the branch selection                                     *)
(***************************************************************************)
doctor_keywords == <<
    <<"d", "o", "c", "t", "o", "r">>,
    <<"p", "r", "a", "c", "t", "i", "t", "i", "o", "n", "e", "r">>,
    <<"p", "h", "y", "s", "i", "c", "i", "a", "n">>,
    <<"v", "a", "i", "d", "y", "a">> >>

health_keywords == <<
    <<"t", "r", "e", "a", "t">>,
    <<"c", "u", "r", "e">>,
    <<"h", "e", "a", "l", "i", "n", "g">>,
    <<"m", "e", "d", "i", "c", "i", "n", "e">>,
    <<"t", "h", "e", "r", "a", "p", "y">>,
    <<"d", "i", "s", "e", "a", "s", "e">>,
    <<"c", "o", "n", "d", "i", "t", "i", "o", "n">>,
    <<"p", "r", "o", "b", "l", "e", "m">>,
    <<"p", "a", "i", "n">> >>

\* the branch selection with the two tests in the wrong order
branch_health_first(q) ==
    IF any_keyword(lower(q), health_keywords) THEN "ConditionTreatment"
    ELSE IF any_keyword(lower(q), doctor_keywords) THEN "PractitionerLookup"
    ELSE "General"

\* the if / elif / fall-through of process_query
branch(q) ==
    IF any_keyword(lower(q), doctor_keywords) THEN "PractitionerLookup"
    ELSE IF any_keyword(lower(q), health_keywords) THEN "ConditionTreatment"
    ELSE "General"

(***************************************************************************)
(* Hits and documents.  An optional value is <<>> (absent) or <<v>>.  A    *)
(* metadata mapping is given by its "type" and "name" entries; the empty   *)
(* mapping has neither.                                                    *)
(***************************************************************************)
EmptyMapping == [type |-> <<>>, name |-> <<>>]

\* mapping.get(key, default) for an entry held as an optional value
get(entry, default) == IF entry = <<>> THEN default ELSE entry[1]

\* the is_doctor_info test without the lower-casing
is_doctor_type_exact(metadata) ==
    contains(get(metadata.type, <<>>), <<"d", "o", "c", "t", "o", "r">>)

\* 'doctor' in metadata.get('type', '').lower()
is_doctor_type(metadata) ==
    contains(lower(get(metadata.type, <<>>)), <<"d", "o", "c", "t", "o", "r">>)

\* the DocumentResponse built from one hit whose payload is a mapping
DocumentResponse(hit) ==
    LET payload == hit.payload[1]
    IN  [content        |-> get(payload.text, ""),
         confidence     |-> hit.score,
         metadata       |-> get(payload.metadata, EmptyMapping),
         is_doctor_info |-> is_doctor_type(get(payload.metadata, EmptyMapping))]

\* a hit the comprehension cannot map: its payload is None
malformed(hit) == hit.payload = <<>>

(***************************************************************************)
(* load_config.  A configuration, the file's table and the environment map *)
(* each key to an optional value.                                          *)
(***************************************************************************)
ConfigKeys == {"QDRANT_URL", "QDRANT_API_KEY", "EXTRA"}

default_config ==
    [QDRANT_URL |-> <<"http://localhost:6333">>, QDRANT_API_KEY |-> <<"">>, EXTRA |-> <<>>]

\* config.update(toml_config)
update(cfg, toml_config) ==
    [k \in ConfigKeys |-> IF toml_config[k] # <<>> THEN toml_config[k] ELSE cfg[k]]

\* the environment loop run before the file is merged, so that the file wins
env_then_file(file, env) ==
    LET overridden == [k \in ConfigKeys |->
                          IF default_config[k] # <<>> /\ env[k] # <<>> /\ env[k][1] # ""
                          THEN env[k] ELSE default_config[k]]
    IN  IF ~file.exists THEN overridden ELSE update(overridden, file.table)

\* the configuration load_config returns when toml.load does not raise
resolve(file, env) ==
    LET merged == IF file.exists THEN update(default_config, file.table)
                  ELSE default_config
    IN  [k \in ConfigKeys |->
            IF merged[k] # <<>> /\ env[k] # <<>> /\ env[k][1] # ""
            THEN env[k] ELSE merged[k]]

\* load_config: only FileNotFoundError is caught; a file toml cannot parse raises
load_config(file, env) ==
    [raised  |-> file.exists /\ ~file.parses,
     warning |-> ~file.exists,
     config  |-> IF file.exists /\ ~file.parses THEN default_config
                 ELSE resolve(file, env)]

(***************************************************************************)
(* VectorDBService                                                         *)
(***************************************************************************)
limit == 5

Unconstructed == [client |-> "unset", model |-> "unset"]

Disabled == [client |-> "None", model |-> "None"]

\* Python truth of a configuration value handed to __init__
truthy(entry) == entry # <<>> /\ entry[1] # ""

\* VectorDBService.__init__; outcome is "ok", or the constructor that raised
VectorDBService(api_url, api_key, outcome) ==
    IF outcome = "ok"
    THEN [client |-> IF truthy(api_url) /\ truthy(api_key) THEN "remote" ELSE ":memory:",
          model  |-> "all-MiniLM-L6-v2"]
    ELSE Disabled

\* what one search call did: the text searched, the back-end calls issued, whether
\* st.error was shown, whether an error left the call, the documents returned and
\* the gateway as the call left it.  NoCall is the early return of search.
NoCall(gw, q) ==
    [query |-> q, encode_called |-> FALSE, index_called |-> FALSE,
     error_shown |-> FALSE, raised |-> FALSE, docs |-> <<>>, gateway |-> gw]

\* the body of search's try block, with its except clause
search_enabled(gw, q, backend) ==
    IF backend.fault = "encode"
    THEN [NoCall(gw, q) EXCEPT !.encode_called = TRUE, !.error_shown = TRUE]
    ELSE IF backend.fault = "index" \/ \E i \in DOMAIN backend.hits : malformed(backend.hits[i])
    THEN [NoCall(gw, q) EXCEPT !.encode_called = TRUE, !.index_called = TRUE,
                           !.error_shown = TRUE]
    ELSE [NoCall(gw, q) EXCEPT !.encode_called = TRUE, !.index_called = TRUE,
                           !.docs = [i \in DOMAIN backend.hits |->
                                        DocumentResponse(backend.hits[i])]]

\* a search that builds the client and the model again when they are missing
search_reconnecting(gw, q, backend) ==
    IF gw.client = "None" \/ gw.model = "None"
    THEN search_enabled([client |-> ":memory:", model |-> "all-MiniLM-L6-v2"], q, backend)
    ELSE search_enabled(gw, q, backend)

\* a search whose except clause also gives the client up
search_latching(gw, q, backend) ==
    IF gw.client = "None" \/ gw.model = "None" THEN NoCall(gw, q)
    ELSE LET r == search_enabled(gw, q, backend)
         IN  IF r.error_shown THEN [r EXCEPT !.gateway = Disabled] ELSE r

\* VectorDBService.search
search(gw, q, backend) ==
    IF gw.client = "None" \/ gw.model = "None" THEN NoCall(gw, q)
    ELSE search_enabled(gw, q, backend)

(***************************************************************************)
(* AyurvedaExpertSystem: texts are sequences of lines                      *)
(***************************************************************************)
EmailLine == "Email: support@myayurhealth.com"

PhoneLine == "Phone: +1 (555) 123-4567"

\* the fixed text process_doctor_query returns when no doctor document is found
apology ==
    <<"I apologize, but I couldn't find any doctors matching your query in our platform. Please try a different search or contact our support team for assistance:",
      EmailLine, PhoneLine>>

RECURSIVE join(_, _)
\* sep.join(items)
join(sep, items) ==
    IF Len(items) = 0 THEN <<>>
    ELSE IF Len(items) = 1 THEN <<items[1]>>
    ELSE <<items[1], sep>> \o join(sep, Tail(items))

\* [doc.content for doc in documents]
contents(documents) == [i \in DOMAIN documents |-> documents[i].content]

\* a doctor filter that keeps every document
keep_all(documents) == documents

\* [doc for doc in documents if doc.is_doctor_info]
doctors_only(documents) == SelectSeq(documents, LAMBDA d : d.is_doctor_info)

\* the search text of the second search of process_health_query
doctor_treating(q) ==
    <<"d", "o", "c", "t", "o", "r", " ", "t", "r", "e", "a", "t", "i", "n", "g", " ">> \o q

\* a merge that puts the doctor documents first
merge_doctors_first(first, second) == second \o first

\* all_docs = condition_docs + doctor_docs
merge(first, second) == first \o second

\* a prompt: which f-string it is, the query and context interpolated into it,
\* whether it asks for a note that the answer is general information, whether it
\* says "End with" before the contact lines, and the contact lines it carries
Prompt(template, q, context, general_note, end_with) ==
    [template |-> template, query |-> q, context |-> context,
     general_note |-> general_note, end_with |-> end_with,
     contact |-> <<EmailLine, PhoneLine>>]

\* a context built from the first search only
context_of_first(documents) == join("\n", contents(docs))

\* context = "\n".join([doc.content for doc in ...])
context_of(documents) == join("\n", contents(documents))

\* the documents an answer of the current branch is built from
supporting ==
    IF intent = "PractitionerLookup" THEN doctor_docs
    ELSE IF intent = "ConditionTreatment" THEN merge(docs, doctor_docs)
    ELSE docs

\* the prompt the current branch hands to Agent.run
prompt_of ==
    IF intent = "PractitionerLookup"
    THEN Prompt("doctor_information", <<>>, context_of(supporting), FALSE, TRUE)
    ELSE IF intent = "ConditionTreatment"
    THEN IF supporting = <<>>
         THEN Prompt("ayurveda_approach", query, <<>>, TRUE, TRUE)
         ELSE Prompt("platform_information", query, context_of(supporting), FALSE, TRUE)
    ELSE IF supporting = <<>>
         THEN Prompt("general_information", query, <<>>, TRUE, FALSE)
         ELSE Prompt("documentation", query, context_of(supporting), FALSE, TRUE)

(***************************************************************************)
(* What the collaborators may hand back                                    *)
(***************************************************************************)
Min(a, b) == IF a < b THEN a ELSE b

DoctorHit ==
    [payload |-> <<[text     |-> <<"Dr. Sharma, Ayurvedic neurologist">>,
                    metadata |-> <<[type |-> << <<"A", "y", "u", "r", "v", "e", "d", "i", "c", " ", "D", "o", "c", "t", "o", "r">> >>,
                                    name |-> <<"Dr. Sharma">>]>>]>>,
     score |-> 9]

HerbHit ==
    [payload |-> <<[text     |-> <<"Turmeric eases inflammation">>,
                    metadata |-> <<[type |-> << <<"H", "e", "r", "b">> >>,
                                    name |-> <<>>]>>]>>,
     score |-> 7]

\* a hit without payload
NoneHit == [payload |-> <<>>, score |-> 5]

PipelineHits == {DoctorHit, HerbHit, NoneHit}

HitSeqs(hits, n) == UNION {[1..k -> hits] : k \in 0..n}

\* one search's back end: the embedding fails, the index query fails, or the
\* index returns at most limit hits
Backends ==
    {[fault |-> f, hits |-> <<>>] : f \in {"encode", "index"}}
    \cup {[fault |-> "none", hits |-> h] : h \in HitSeqs(PipelineHits, Min(MaxHits, limit))}

\* Agent.run(...).content: any text, or an error
GenOutcomes ==
    {[raised |-> TRUE, content |-> <<>>]}
    \cup {[raised |-> FALSE, content |-> t] :
            t \in {<<"Generated answer.">>,
                   <<"Generated answer.", EmailLine, PhoneLine>>,
                   <<EmailLine, PhoneLine, "Generated answer.">>}}

NoFile == [exists |-> FALSE, parses |-> FALSE, table |-> [k \in ConfigKeys |-> <<>>]]

NoEnv == [k \in ConfigKeys |-> <<>>]

RemoteFile ==
    [exists |-> TRUE, parses |-> TRUE,
     table |-> [QDRANT_URL |-> <<"https://file.example">>, QDRANT_API_KEY |-> <<"file-key">>,
                EXTRA |-> <<>>]]

BrokenFile == [RemoteFile EXCEPT !.parses = FALSE]

\* the files and environments the script runs under
PipelineSetups ==
    {[file |-> f, env |-> NoEnv] : f \in {NoFile, RemoteFile, BrokenFile}}

\* what the text input may hold when the script runs
PipelineQueries ==
    {<<>>,
     <<"D", "o", "c", "t", "o", "r", " ", "f", "o", "r", " ", "p", "a", "i", "n">>,
     <<"h", "o", "w", " ", "t", "o", " ", "t", "r", "e", "a", "t", " ", "i", "n", "s", "o", "m", "n", "i", "a">>,
     <<"t", "u", "r", "m", "e", "r", "i", "c", " ", "b", "e", "n", "e", "f", "i", "t", "s">>}

NoResult == [kind |-> "none", text |-> <<>>, docs |-> <<>>]

(***************************************************************************)
(* One run of the script, step by step                                     *)
(***************************************************************************)
PipelineInit ==
    /\ pc = "start"
    /\ config = default_config
    /\ vector_db = Unconstructed
    /\ query = <<>>
    /\ intent = "none"
    /\ docs = <<>>
    /\ doctor_docs = <<>>
    /\ searchLog = <<>>
    /\ genLog = <<>>
    /\ result = NoResult
    /\ initFailed = FALSE

PureIdle == fn = "idle" /\ applied = FALSE /\ input = <<>> /\ output = <<>>

Init == PipelineInit /\ PureIdle

\* main: load_config, then AyurvedaExpertSystem.__init__, which builds the gateway
\* and then the Agent; an error of load_config or of the Agent ends the script run
main_construct ==
    /\ pc = "start"
    /\ \E setup \in PipelineSetups, outcome \in {"ok", "client_error", "model_error"},
          agent_ok \in BOOLEAN :
         LET loaded == load_config(setup.file, setup.env)
         IN  IF loaded.raised
             THEN /\ pc' = "raised"
                  /\ UNCHANGED <<config, vector_db, initFailed>>
             ELSE /\ pc' = IF agent_ok THEN "input" ELSE "raised"
                  /\ config' = loaded.config
                  /\ vector_db' = VectorDBService(loaded.config.QDRANT_URL,
                                                  loaded.config.QDRANT_API_KEY, outcome)
                  /\ initFailed' = (initFailed \/ outcome # "ok")
    /\ UNCHANGED <<query, intent, docs, doctor_docs, searchLog, genLog, result, pureVars>>

\* main: the text input and the Submit button
main_input ==
    /\ pc = "input"
    /\ \E q \in PipelineQueries, button \in BOOLEAN :
         IF ~button
         THEN pc' = "rendered" /\ UNCHANGED <<query, result>>
         ELSE IF q = <<>>
         THEN pc' = "rendered" /\ result' = [NoResult EXCEPT !.kind = "warning"]
              /\ UNCHANGED query
         ELSE pc' = "process_query" /\ query' = q /\ UNCHANGED result
    /\ UNCHANGED <<config, vector_db, intent, docs, doctor_docs, searchLog, genLog,
                   initFailed, pureVars>>

\* process_query: the dispatch
process_query ==
    /\ pc = "process_query"
    /\ intent' = branch(query)
    /\ pc' = intent'
    /\ UNCHANGED <<config, vector_db, query, docs, doctor_docs, searchLog, genLog, result,
                   initFailed, pureVars>>

\* a search raised out of the gateway: the script run ends with the error
propagate ==
    /\ pc' = "raised"
    /\ result' = [NoResult EXCEPT !.kind = "raised"]

\* process_doctor_query up to the generation call
process_doctor_query ==
    /\ pc = "PractitionerLookup"
    /\ \E backend \in Backends :
         LET r == search(vector_db, query, backend)
         IN  /\ searchLog' = Append(searchLog, [before |-> vector_db, backend |-> backend,
                                                 call |-> r])
             /\ vector_db' = r.gateway
             /\ docs' = r.docs
             /\ doctor_docs' = doctors_only(r.docs)
             /\ IF r.raised THEN propagate
                ELSE IF doctors_only(r.docs) = <<>>
                THEN pc' = "returned"
                     /\ result' = [kind |-> "answer", text |-> apology, docs |-> <<>>]
                ELSE pc' = "generate" /\ UNCHANGED result
    /\ UNCHANGED <<config, query, intent, genLog, initFailed, pureVars>>

\* process_health_query: the condition search
process_health_query ==
    /\ pc = "ConditionTreatment"
    /\ \E backend \in Backends :
         LET r == search(vector_db, query, backend)
         IN  /\ searchLog' = Append(searchLog, [before |-> vector_db, backend |-> backend,
                                                 call |-> r])
             /\ vector_db' = r.gateway
             /\ docs' = r.docs
             /\ IF r.raised THEN propagate
                ELSE pc' = "doctor_search" /\ UNCHANGED result
    /\ UNCHANGED <<config, query, intent, doctor_docs, genLog, initFailed, pureVars>>

\* process_health_query: the doctor search and its filter
process_health_query_doctors ==
    /\ pc = "doctor_search"
    /\ \E backend \in Backends :
         LET r == search(vector_db, doctor_treating(query), backend)
         IN  /\ searchLog' = Append(searchLog, [before |-> vector_db, backend |-> backend,
                                                 call |-> r])
             /\ vector_db' = r.gateway
             /\ doctor_docs' = doctors_only(r.docs)
             /\ IF r.raised THEN propagate
                ELSE pc' = "generate" /\ UNCHANGED result
    /\ UNCHANGED <<config, query, intent, docs, genLog, initFailed, pureVars>>

\* a general branch that searches once more when the first search found nothing
general_query_retrying ==
    /\ pc = "General"
    /\ \E backend \in Backends :
         LET r == search(vector_db, query, backend)
         IN  /\ searchLog' = Append(searchLog, [before |-> vector_db, backend |-> backend,
                                                 call |-> r])
             /\ vector_db' = r.gateway
             /\ docs' = r.docs
             /\ pc' = IF r.docs = <<>> /\ searchLog = <<>> THEN "General" ELSE "generate"
             /\ UNCHANGED result
    /\ UNCHANGED <<config, query, intent, doctor_docs, genLog, initFailed, pureVars>>

\* process_query: the search of the general branch
general_query ==
    /\ pc = "General"
    /\ \E backend \in Backends :
         LET r == search(vector_db, query, backend)
         IN  /\ searchLog' = Append(searchLog, [before |-> vector_db, backend |-> backend,
                                                 call |-> r])
             /\ vector_db' = r.gateway
             /\ docs' = r.docs
             /\ IF r.raised THEN propagate
                ELSE pc' = "generate" /\ UNCHANGED result
    /\ UNCHANGED <<config, query, intent, doctor_docs, genLog, initFailed, pureVars>>

\* self.model.run(prompt).content and the return that follows it
agent_run ==
    /\ pc = "generate"
    /\ genLog' = Append(genLog, prompt_of)
    /\ \E outcome \in GenOutcomes :
         IF outcome.raised THEN propagate
         ELSE /\ pc' = "returned"
              /\ result' = [kind |-> "answer", text |-> outcome.content, docs |-> supporting]
    /\ UNCHANGED <<config, vector_db, query, intent, docs, doctor_docs, searchLog,
                   initFailed, pureVars>>

\* main: the response and its sources are written out
main_render ==
    /\ pc = "returned"
    /\ pc' = "rendered"
    /\ UNCHANGED <<config, vector_db, query, intent, docs, doctor_docs, searchLog, genLog,
                   result, initFailed, pureVars>>

\* the UI framework executes the script from the top on every interaction, in the
\* same process: main runs again and builds a new AyurvedaExpertSystem
rerun ==
    /\ pc \in {"rendered", "raised"}
    /\ pc' = "start"
    /\ config' = default_config
    /\ vector_db' = Unconstructed
    /\ query' = <<>>
    /\ intent' = "none"
    /\ docs' = <<>>
    /\ doctor_docs' = <<>>
    /\ searchLog' = <<>>
    /\ genLog' = <<>>
    /\ result' = NoResult
    /\ UNCHANGED <<initFailed, pureVars>>

Next ==
    \/ main_construct
    \/ main_input
    \/ process_query
    \/ process_doctor_query
    \/ process_health_query
    \/ process_health_query_doctors
    \/ general_query
    \/ agent_run
    \/ main_render
    \/ rerun

Spec == Init /\ [][Next]_vars

(***************************************************************************)
(* The branch selection, applied to drawn queries                          *)
(***************************************************************************)
QuerySegments ==
    {<<"D", "o", "c", "t", "o", "r">>,
     <<"P", "R", "A", "C", "T", "I", "T", "I", "O", "N", "E", "R">>,
     <<"P", "h", "y", "s", "i", "c", "i", "a", "n">>,
     <<"v", "a", "i", "d", "y", "a">>,
     <<"t", "r", "e", "a", "t">>,
     <<"C", "u", "r", "e">>,
     <<"H", "E", "A", "L", "I", "N", "G">>,
     <<"m", "e", "d", "i", "c", "i", "n", "e">>,
     <<"T", "h", "e", "r", "a", "p", "y">>,
     <<"d", "i", "s", "e", "a", "s", "e">>,
     <<"C", "O", "N", "D", "I", "T", "I", "O", "N">>,
     <<"p", "r", "o", "b", "l", "e", "m">>,
     <<"P", "a", "i", "n">>,
     <<"D", "o", "c">>,
     <<"t", "o", "r">>,
     <<"S", "p", "a">>,
     <<"i", "n">>,
     <<"h", "e", "r", "b">>,
     <<" ">>}

RECURSIVE Concatenations(_, _)
\* the texts made of at most n of the segments
Concatenations(segments, n) ==
    IF n = 0 THEN {<<>>}
    ELSE LET shorter == Concatenations(segments, n - 1)
         IN  shorter \cup {t \o g : t \in shorter, g \in segments}

QueryInputs == Concatenations(QuerySegments, MaxSegs)

ClassifyInit ==
    /\ PipelineInit
    /\ fn = "process_query"
    /\ applied = FALSE
    /\ input \in QueryInputs
    /\ output = "none"

\* process_query selects the branch of the drawn query
classify ==
    /\ fn = "process_query"
    /\ ~applied
    /\ applied' = TRUE
    /\ output' = branch(input)
    /\ UNCHANGED <<fn, input, pipelineVars>>

SpecClassify == ClassifyInit /\ [][classify]_vars

(***************************************************************************)
(* load_config, applied to drawn files and environments                    *)
(***************************************************************************)
FileEntries == {<<>>, <<"">>, <<"from-file">>}

EnvEntries == {<<>>, <<"">>, <<"from-env">>}

ConfigFiles ==
    {NoFile}
    \cup {[exists |-> TRUE, parses |-> ok, table |-> t] :
            ok \in BOOLEAN, t \in [ConfigKeys -> FileEntries]}

ConfigInputs == [file : ConfigFiles, env : [ConfigKeys -> EnvEntries]]

ConfigInit ==
    /\ PipelineInit
    /\ fn = "load_config"
    /\ applied = FALSE
    /\ input \in ConfigInputs
    /\ output = [raised |-> FALSE, warning |-> FALSE, config |-> default_config]

\* load_config runs on the drawn file and environment
load ==
    /\ fn = "load_config"
    /\ ~applied
    /\ applied' = TRUE
    /\ output' = load_config(input.file, input.env)
    /\ UNCHANGED <<fn, input, pipelineVars>>

SpecConfig == ConfigInit /\ [][load]_vars

(***************************************************************************)
(* search, applied to one drawn hit on an enabled gateway                  *)
(***************************************************************************)
TypeSegments ==
    {<<"A", "y", "u", "r", "v", "e", "d", "i", "c", " ">>,
     <<"D", "o", "c", "t", "o", "r">>,
     <<"d", "o", "c", "t", "o", "r", "s">>,
     <<"D", "O", "C">>,
     <<"T", "O", "R">>,
     <<"H", "e", "r", "b">>}

Mappings ==
    {[type |-> t, name |-> n] :
        t \in {<<>>} \cup {<<c>> : c \in Concatenations(TypeSegments, MaxSegs)},
        n \in {<<>>, <<"Dr. Sharma">>}}

Payloads ==
    {[text |-> t, metadata |-> m] :
        t \in {<<>>, <<"Dr. Sharma, Ayurvedic neurologist">>},
        m \in {<<>>} \cup {<<x>> : x \in Mappings}}

HitInputs ==
    {[payload |-> pl, score |-> 9] : pl \in {<<>>} \cup {<<x>> : x \in Payloads}}

EnabledGateway == [client |-> ":memory:", model |-> "all-MiniLM-L6-v2"]

HitInit ==
    /\ PipelineInit
    /\ fn = "search"
    /\ applied = FALSE
    /\ input \in HitInputs
    /\ output = NoCall(EnabledGateway, <<>>)

\* search runs on an index that returns the drawn hit
map_hit ==
    /\ fn = "search"
    /\ ~applied
    /\ applied' = TRUE
    /\ output' = search(EnabledGateway, <<>>, [fault |-> "none", hits |-> <<input>>])
    /\ UNCHANGED <<fn, input, pipelineVars>>

SpecHit == HitInit /\ [][map_hit]_vars

(***************************************************************************)
(* Properties.  The words below are the specification's, written out       *)
(* again rather than taken from the definitions above.                     *)
(***************************************************************************)
PractitionerWords ==
    {<<"d", "o", "c", "t", "o", "r">>,
     <<"p", "r", "a", "c", "t", "i", "t", "i", "o", "n", "e", "r">>,
     <<"p", "h", "y", "s", "i", "c", "i", "a", "n">>,
     <<"v", "a", "i", "d", "y", "a">>}

ConditionWords ==
    {<<"t", "r", "e", "a", "t">>, <<"c", "u", "r", "e">>,
     <<"h", "e", "a", "l", "i", "n", "g">>, <<"m", "e", "d", "i", "c", "i", "n", "e">>,
     <<"t", "h", "e", "r", "a", "p", "y">>, <<"d", "i", "s", "e", "a", "s", "e">>,
     <<"c", "o", "n", "d", "i", "t", "i", "o", "n">>, <<"p", "r", "o", "b", "l", "e", "m">>,
     <<"p", "a", "i", "n">>}

\* the small letter of each capital
SmallOf ==
    [c \in {UpperCase[n] : n \in DOMAIN UpperCase} |->
        LowerCase[CHOOSE n \in DOMAIN UpperCase : UpperCase[n] = c]]

SameLetter(a, b) ==
    (IF a \in DOMAIN SmallOf THEN SmallOf[a] ELSE a)
        = (IF b \in DOMAIN SmallOf THEN SmallOf[b] ELSE b)

\* word occurs in text as a substring, letter case ignored
OccursIn(word, text) ==
    \E i \in 1..(Len(text) - Len(word) + 1) :
        \A j \in 1..Len(word) : SameLetter(text[i + j - 1], word[j])

Mentions(text, words) == \E w \in words : OccursIn(w, text)

IntentOf(text) ==
    IF Mentions(text, PractitionerWords) THEN "PractitionerLookup"
    ELSE IF Mentions(text, ConditionWords) THEN "ConditionTreatment"
    ELSE "General"

Classified == fn = "process_query" /\ applied

\* C1: process_query selects exactly one branch for every query, by substring match
\* with letter case ignored, in fixed priority: PractitionerLookup when a practitioner
\* word occurs (even beside condition words), otherwise ConditionTreatment when a
\* condition word occurs, otherwise General.
C1_BranchByKeywordPriority ==
    Classified =>
        /\ output \in {"PractitionerLookup", "ConditionTreatment", "General"}
        /\ (output = "PractitionerLookup") <=> Mentions(input, PractitionerWords)
        /\ (output = "ConditionTreatment") <=>
               (~Mentions(input, PractitionerWords) /\ Mentions(input, ConditionWords))
        /\ (output = "General") <=>
               (~Mentions(input, PractitionerWords) /\ ~Mentions(input, ConditionWords))

\* a query with an upper-case practitioner word and a condition word went to
\* PractitionerLookup
C1_Witness ==
    /\ Classified
    /\ ~any_keyword(input, doctor_keywords)
    /\ Mentions(input, PractitionerWords)
    /\ Mentions(input, ConditionWords)
    /\ output = "PractitionerLookup"

Answered == result.kind = "answer"

EndsWithContactBlock(text) ==
    /\ Len(text) >= 2
    /\ text[Len(text) - 1] = "Email: support@myayurhealth.com"
    /\ text[Len(text)] = "Phone: +1 (555) 123-4567"

\* C2: every answer text process_query returns, in every branch and for every output
\* of the generation call, ends with the support email and phone lines.
C2_AnswerEndsWithContact == Answered => EndsWithContactBlock(result.text)

GatewayDisabled(gw) == gw.client = "None" /\ gw.model = "None"

GatewayEnabled(gw) == gw.client \in {"remote", ":memory:"} /\ gw.model # "None"

ShortCircuited(call) ==
    /\ ~call.encode_called
    /\ ~call.index_called
    /\ ~call.raised
    /\ call.docs = <<>>

\* C3 as stated: once an initialization has failed in this process, no gateway is
\* enabled again and every search is short-circuited, whatever is submitted later.
C3_LatchedForProcess ==
    initFailed =>
        /\ ~GatewayEnabled(vector_db)
        /\ \A i \in DOMAIN searchLog : ShortCircuited(searchLog[i].call)

\* C3 amended: a gateway whose initialization failed stays disabled for as long as
\* the script run that built it lasts; every search on it returns nothing, raises
\* nothing and calls no back end.  Only the next run of the script, which builds a
\* new gateway, ends that.
C3_LatchedForGateway ==
    [][GatewayDisabled(vector_db) =>
          \/ /\ GatewayDisabled(vector_db')
             /\ \A i \in DOMAIN searchLog' : ShortCircuited(searchLog'[i].call)
          \/ /\ pc \in {"rendered", "raised"}
             /\ pc' = "start"
             /\ vector_db' = [client |-> "unset", model |-> "unset"]]_vars

\* two searches were made on a gateway whose initialization had failed
C3_Witness ==
    /\ GatewayDisabled(vector_db)
    /\ initFailed
    /\ Len(searchLog) = 2
    /\ Answered

Failing(backend) ==
    backend.fault # "none" \/ \E i \in DOMAIN backend.hits : backend.hits[i].payload = <<>>

TextOf(hit) == IF hit.payload[1].text = <<>> THEN "" ELSE hit.payload[1].text[1]

\* C4: a search that fails on an enabled gateway (embedding, index query, or a hit
\* that cannot be mapped) raises nothing, returns no document and leaves the gateway
\* as it was; a later search whose back end succeeds returns one document per hit.
C4_SearchFailureIsAbsorbed ==
    /\ \A i \in DOMAIN searchLog :
         LET e == searchLog[i]
         IN  (GatewayEnabled(e.before) /\ Failing(e.backend)) =>
                 /\ ~e.call.raised
                 /\ e.call.docs = <<>>
                 /\ e.call.gateway = e.before
                 /\ vector_db = e.before
    /\ \A i, j \in DOMAIN searchLog :
         (/\ i < j
          /\ GatewayEnabled(searchLog[i].before)
          /\ Failing(searchLog[i].backend)
          /\ ~Failing(searchLog[j].backend)) =>
             /\ Len(searchLog[j].call.docs) = Len(searchLog[j].backend.hits)
             /\ \A k \in DOMAIN searchLog[j].call.docs :
                    searchLog[j].call.docs[k].content = TextOf(searchLog[j].backend.hits[k])

\* the condition search failed on a malformed hit and the doctor search that
\* followed returned its documents
C4_Witness ==
    /\ Len(searchLog) = 2
    /\ GatewayEnabled(searchLog[1].before)
    /\ searchLog[1].backend.fault = "none"
    /\ Failing(searchLog[1].backend)
    /\ searchLog[2].call.docs # <<>>

\* the contents of the documents, in order, with a newline between neighbours
NewlineJoined(documents) ==
    [i \in 1..(2 * Len(documents) - 1) |->
        IF i % 2 = 1 THEN documents[(i + 1) \div 2].content ELSE "\n"]

ApologyText ==
    <<"I apologize, but I couldn't find any doctors matching your query in our platform. Please try a different search or contact our support team for assistance:",
      "Email: support@myayurhealth.com", "Phone: +1 (555) 123-4567">>

GeneratedFrom(context) == Len(genLog) = 1 /\ genLog[1].context = context

FramedAsGeneral == Len(genLog) = 1 /\ genLog[1].context = <<>> /\ genLog[1].general_note

\* C5 as stated: an answer with supporting documents was generated from a prompt
\* whose context is exactly their newline-joined contents; an answer without them is
\* framed as general knowledge, in all three branches.
C5_GroundedOrGeneral ==
    Answered =>
        IF result.docs # <<>> THEN GeneratedFrom(NewlineJoined(result.docs))
        ELSE FramedAsGeneral

\* C5 amended: as stated, except that an answer without supporting documents in the
\* PractitionerLookup branch is the fixed apology, made without any generation call.
C5_GroundedGeneralOrApology ==
    Answered =>
        IF result.docs # <<>> THEN GeneratedFrom(NewlineJoined(result.docs))
        ELSE IF IntentOf(query) = "PractitionerLookup"
        THEN result.text = ApologyText /\ genLog = <<>>
        ELSE FramedAsGeneral

\* a PractitionerLookup answer was generated from the doctor documents of a search
\* that also returned another document
C5_Witness ==
    /\ Answered
    /\ IntentOf(query) = "PractitionerLookup"
    /\ Len(result.docs) = 1
    /\ Len(searchLog[1].call.docs) = 2
    /\ genLog[1].context = NewlineJoined(result.docs)

DoctorDocuments(documents) == SelectSeq(documents, LAMBDA d : d.is_doctor_info = TRUE)

DoctorTreating ==
    <<"d", "o", "c", "t", "o", "r", " ", "t", "r", "e", "a", "t", "i", "n", "g", " ">>

\* C6: the supporting documents of a ConditionTreatment answer are the documents of
\* search(query), unfiltered and in order, followed by the doctor documents of
\* search("doctor treating " + query) in order, duplicates kept.
C6_ConditionDocsThenDoctorDocs ==
    (Answered /\ intent = "ConditionTreatment") =>
        /\ Len(searchLog) = 2
        /\ searchLog[1].call.query = query
        /\ searchLog[2].call.query = DoctorTreating \o query
        /\ result.docs =
               searchLog[1].call.docs \o DoctorDocuments(searchLog[2].call.docs)

\* the condition search returned a herb document and a doctor document, the doctor
\* search returned the same two, and the doctor document is in the answer twice
C6_Witness ==
    /\ Answered
    /\ intent = "ConditionTreatment"
    /\ Len(searchLog) = 2
    /\ Len(searchLog[1].call.docs) = 2
    /\ ~searchLog[1].call.docs[1].is_doctor_info
    /\ searchLog[1].call.docs[2].is_doctor_info
    /\ searchLog[2].call.docs = searchLog[1].call.docs
    /\ Len(result.docs) = 3
    /\ result.docs[2] = result.docs[3]

CallOver == pc \in {"returned", "rendered", "raised"} /\ intent # "none"

\* C7: a PractitionerLookup call whose search result holds no doctor document
\* returns the fixed apology with no supporting documents and makes no generation
\* call; otherwise it makes exactly one generation call and the supporting
\* documents are the doctor documents of the search, in retrieval order.
C7_ApologyWithoutDoctors ==
    (CallOver /\ intent = "PractitionerLookup") =>
        /\ Len(searchLog) = 1
        /\ IF DoctorDocuments(searchLog[1].call.docs) = <<>>
           THEN /\ result = [kind |-> "answer", text |-> ApologyText, docs |-> <<>>]
                /\ genLog = <<>>
           ELSE /\ Len(genLog) = 1
                /\ Answered => result.docs = DoctorDocuments(searchLog[1].call.docs)

\* the search of a PractitionerLookup call returned documents, none of a doctor,
\* and the apology was returned
C7_Witness ==
    /\ CallOver
    /\ intent = "PractitionerLookup"
    /\ searchLog[1].call.docs # <<>>
    /\ result.text = ApologyText

ConfigLoaded == fn = "load_config" /\ applied

EnvSupplies(k) == input.env[k] # <<>> /\ input.env[k][1] # ""

FileSupplies(k) == input.file.exists /\ input.file.table[k] # <<>>

BuiltInDefault(k) == IF k = "QDRANT_URL" THEN <<"http://localhost:6333">> ELSE <<"">>

\* C8 as stated: for the endpoint and the credential, the file's value wins over
\* the environment's, which wins over the built-in default.
C8_FileOverEnvironment ==
    (ConfigLoaded /\ ~output.raised) =>
        \A k \in {"QDRANT_URL", "QDRANT_API_KEY"} :
            output.config[k] =
                IF FileSupplies(k) THEN input.file.table[k]
                ELSE IF EnvSupplies(k) THEN input.env[k]
                ELSE BuiltInDefault(k)

\* C8 amended: a non-empty environment variable wins over the file's value, which
\* wins over the built-in default; a missing file raises nothing.
C8_EnvironmentOverFile ==
    ConfigLoaded =>
        /\ ~input.file.exists => ~output.raised
        /\ ~output.raised =>
             \A k \in {"QDRANT_URL", "QDRANT_API_KEY"} :
                 output.config[k] =
                     IF EnvSupplies(k) THEN input.env[k]
                     ELSE IF FileSupplies(k) THEN input.file.table[k]
                     ELSE BuiltInDefault(k)

\* the file and the environment both gave an endpoint and the environment's was
\* returned; the credential came from the file alone
C8_Witness ==
    /\ ConfigLoaded
    /\ FileSupplies("QDRANT_URL")
    /\ EnvSupplies("QDRANT_URL")
    /\ output.config["QDRANT_URL"] = <<"from-env">>
    /\ ~EnvSupplies("QDRANT_API_KEY")
    /\ output.config["QDRANT_API_KEY"] = <<"from-file">>

HitMapped == fn = "search" /\ applied /\ input.payload # <<>>

\* C9: the document built from a hit is a doctor document exactly when the hit's
\* metadata has a type in which "doctor" occurs, letter case ignored; its content is
\* the hit's text, or empty without one; its metadata is the hit's, or the empty
\* mapping without one.
C9_DoctorFlagFromType ==
    HitMapped =>
        /\ Len(output.docs) = 1
        /\ LET payload == input.payload[1]
               document == output.docs[1]
           IN  /\ document.content = IF payload.text = <<>> THEN "" ELSE payload.text[1]
               /\ document.metadata = IF payload.metadata = <<>>
                                      THEN [type |-> <<>>, name |-> <<>>]
                                      ELSE payload.metadata[1]
               /\ document.is_doctor_info <=>
                      /\ payload.metadata # <<>>
                      /\ payload.metadata[1].type # <<>>
                      /\ OccursIn(<<"d", "o", "c", "t", "o", "r">>,
                                  payload.metadata[1].type[1])

\* a hit of type "Ayurvedic Doctor" became a doctor document
C9_Witness ==
    /\ HitMapped
    /\ input.payload[1].metadata # <<>>
    /\ input.payload[1].metadata[1].type =
           << <<"A", "y", "u", "r", "v", "e", "d", "i", "c", " ", "D", "o", "c", "t", "o", "r">> >>
    /\ output.docs[1].is_doctor_info

SearchesOf(text) ==
    IF IntentOf(text) = "ConditionTreatment" THEN <<text, DoctorTreating \o text>>
    ELSE <<text>>

SearchesMade == [i \in DOMAIN searchLog |-> searchLog[i].call.query]

\* during a call: the branch is the query's, the searches made so far are the first
\* of the branch's searches, and at most one generation call has been made
OneBranchNoRetry ==
    intent # "none" =>
        /\ intent = IntentOf(query)
        /\ Len(SearchesMade) <= Len(SearchesOf(query))
        /\ SearchesMade = SubSeq(SearchesOf(query), 1, Len(SearchesMade))
        /\ Len(genLog) <= 1

\* C10 as stated: a call of process_query makes one search (two, in order, for
\* ConditionTreatment), at most one generation call, stays in its branch, repeats
\* nothing, and ends with an answer.
C10_NoRetryThenAnswer ==
    /\ OneBranchNoRetry
    /\ CallOver => (SearchesMade = SearchesOf(query) /\ Answered)

\* C10 amended: as stated, except that the call ends without an answer when its one
\* generation call raises; the error leaves process_query and nothing is repeated.
C10_NoRetryThenAnswerOrError ==
    /\ OneBranchNoRetry
    /\ CallOver =>
           /\ SearchesMade = SearchesOf(query)
           /\ Answered \/ (result.kind = "raised" /\ Len(genLog) = 1)

\* a ConditionTreatment call whose two searches both failed still ended with an
\* answer after two searches and one generation call
C10_Witness ==
    /\ CallOver
    /\ Answered
    /\ intent = "ConditionTreatment"
    /\ Len(searchLog) = 2
    /\ searchLog[1].call.error_shown
    /\ searchLog[2].call.error_shown
    /\ Len(genLog) = 1

====
